---- MODULE Spec2Model ----
(***************************************************************************)
(* Query-time retrieval pipeline of backend/open_webui/apps/retrieval/     *)
(* utils.py: result fusion, the plain and hybrid multi-collection          *)
(* orchestrators, the reranking compressor, template substitution and the  *)
(* context/citation assembler.                                             *)
(*                                                                         *)
(* Conventions.                                                            *)
(*  - A QueryResult is the record [distances, documents, metadatas], each  *)
(*    field a sequence of rows; row 1 is Python's index 0.                 *)
(*  - Distances and scores are integers (tenths: 9 stands for 0.9).        *)
(*  - A call of an external collaborator (vector store, embedding          *)
(*    provider, reranker) is an input: its outcome is drawn from a small   *)
(*    set, and the calls made are recorded in a trace.                     *)
(*  - Every function has its own specification (SpecFusion, SpecPlain,     *)
(*    ...); the variables of the other functions stay idle in it.          *)
(***************************************************************************)
EXTENDS Integers, Sequences, FiniteSets, TLC

VARIABLES
    \* merge_and_sort_query_results: arguments, position, return value
    query_results, k, reverse, fusion_pc, fusion_result,
    \* RerankCompressor.compress_documents: arguments and fields, the scorer's
    \* answer, the local docs_with_scores after the filter, the return value;
    \* query_doc_with_hybrid_search: the repacked result
    documents, scores, r_score, top_n, docs_with_scores, final_results,
    hybrid_doc_result, rerank_pc,
    \* query_collection and query_collection_with_hybrid_search: the argument
    \* collection_names, the outcome of the per-collection call made for each
    \* position, position, and what the call did (raised, returned value, the
    \* names it queried in order)
    collection_names, outcomes, orch_pc, orch_result,
    \* rag_template: arguments, position, return value
    template, context, query, template_pc, rendered,
    \* get_rag_context: the arguments files and hybrid_search, the position
    \* in the loop over files, the locals extracted_collections and
    \* relevant_contexts, the returned contexts and citations, and a log of
    \* what each iteration did (names handed on, calls made, items found)
    files, hybrid_search, file_idx, extracted_collections, relevant_contexts,
    contexts, citations, rag_pc, rag_log

fusionVars == <<query_results, reverse, fusion_pc, fusion_result>>

orchVars == <<collection_names, outcomes, orch_pc, orch_result>>

templateVars == <<template, context, query, template_pc, rendered>>

ragVars == <<files, hybrid_search, file_idx, extracted_collections,
             relevant_contexts, contexts, citations, rag_pc, rag_log>>

rerankVars == <<documents, scores, r_score, top_n, docs_with_scores,
                final_results, hybrid_doc_result, rerank_pc>>

vars == <<k, fusionVars, rerankVars, orchVars, templateVars, ragVars>>

----------------------------------------------------------------------------
(* Bounds of the model *)

\* most QueryResults handed to one fusion
MaxResults == 3
\* largest k (top_n) tried
MaxK == 4
\* most candidates handed to the reranking compressor
MaxDocs == 4
\* most collection names handed to one orchestrator call
MaxNames == 3
\* longest template and longest context, in tokens
MaxTemplateLen == 3
MaxContextLen == 2
\* most sources handed to get_rag_context
MaxFiles == 2

\* the retrieved items tried, <<distance, document text>>: two tie on distance
ItemA == <<1, "d1">>
ItemB == <<1, "d2">>
ItemC == <<2, "d3">>
Dists == {ItemA[1], ItemB[1], ItemC[1]}
\* the rows a single retrieval returns: none, one, ascending, descending
Rows == {<<>>, <<ItemA>>, <<ItemB, ItemC>>, <<ItemC, ItemA>>, <<ItemA, ItemB, ItemC>>}

Min(a, b) == IF a <= b THEN a ELSE b

\* s[:n] of Python for n >= 0
Take(s, n) == SubSeq(s, 1, Min(n, Len(s)))

\* all sequences over S of length 0..n
SeqUpTo(S, n) == UNION {[1..m -> S] : m \in 0..n}

----------------------------------------------------------------------------
(* QueryResult *)

QR(ds, docs, ms) == [distances |-> <<ds>>, documents |-> <<docs>>, metadatas |-> <<ms>>]

\* the metadata mapping of a stored chunk
Meta(doc) == [name |-> "f-" \o doc]

\* a well-formed QueryResult of the vector store: three parallel rows
ItemsQR(items) ==
    QR([i \in 1..Len(items) |-> items[i][1]],
       [i \in 1..Len(items) |-> items[i][2]],
       [i \in 1..Len(items) |-> Meta(items[i][2])])

QueryResults == {ItemsQR(items) : items \in Rows}

\* the value of a result variable before its function has returned
NoResult == QR(<<>>, <<>>, <<>>)

----------------------------------------------------------------------------
(* A function that is not the subject of a specification is never called in it *)

FusionIdle ==
    /\ query_results = <<>>
    /\ reverse = FALSE
    /\ fusion_pc = "idle"
    /\ fusion_result = NoResult

RerankIdle ==
    /\ documents = <<>>
    /\ scores = <<>>
    /\ r_score = 0
    /\ top_n = 0
    /\ docs_with_scores = <<>>
    /\ final_results = <<>>
    /\ hybrid_doc_result = NoResult
    /\ rerank_pc = "idle"

\* what a call that has not returned yet has done
NoCall == [raised |-> FALSE, value |-> NoResult, calls |-> <<>>]

OrchIdle ==
    /\ collection_names = <<>>
    /\ outcomes = <<>>
    /\ orch_pc = "idle"
    /\ orch_result = NoCall

TemplateIdle ==
    /\ template = <<>>
    /\ context = <<>>
    /\ query = <<>>
    /\ template_pc = "idle"
    /\ rendered = <<>>

RagIdle ==
    /\ files = <<>>
    /\ hybrid_search = FALSE
    /\ file_idx = 0
    /\ extracted_collections = {}
    /\ relevant_contexts = <<>>
    /\ contexts = <<>>
    /\ citations = <<>>
    /\ rag_pc = "idle"
    /\ rag_log = <<>>

----------------------------------------------------------------------------
(* merge_and_sort_query_results *)

\* list.extend over data[field][0] for data in query_results
RECURSIVE Extend(_, _)
Extend(results, field) ==
    IF results = <<>> THEN <<>>
    ELSE LET data == Head(results)
         IN  data[field][1] \o Extend(Tail(results), field)

\* list(zip(a, b, c)): stops at the shortest
Zip3(a, b, c) ==
    [i \in 1..Min(Len(a), Min(Len(b), Len(c))) |-> <<a[i], b[i], c[i]>>]

\* key a sorts strictly before key b under sort(reverse=rev)
Before(a, b, rev) == IF rev THEN a > b ELSE a < b

\* insert x, keyed by its column c, after every element that does not sort
\* strictly after it
RECURSIVE Insert(_, _, _, _)
Insert(sorted, x, c, rev) ==
    IF sorted = <<>> THEN <<x>>
    ELSE IF Before(x[c], Head(sorted)[c], rev) THEN <<x>> \o sorted
    ELSE <<Head(sorted)>> \o Insert(Tail(sorted), x, c, rev)

RECURSIVE InsertAll(_, _, _, _)
InsertAll(sorted, rest, c, rev) ==
    IF rest = <<>> THEN sorted
    ELSE InsertAll(Insert(sorted, Head(rest), c, rev), Tail(rest), c, rev)

RECURSIVE Reversed(_)
Reversed(s) == IF s = <<>> THEN <<>> ELSE Reversed(Tail(s)) \o <<Head(s)>>

\* a reversed ascending sort: equal keys come out in reverse input order
SortUnstable(list, c, rev) ==
    IF rev THEN Reversed(InsertAll(<<>>, list, c, FALSE))
    ELSE InsertAll(<<>>, list, c, FALSE)

\* list.sort / sorted on the tuples' column c, reverse=rev: stable in both
\* directions
Sort(list, c, rev) == InsertAll(<<>>, list, c, rev)

Column(triples, c) == [i \in 1..Len(triples) |-> triples[i][c]]

Combined(results) ==
    Zip3(Extend(results, "distances"), Extend(results, "documents"),
         Extend(results, "metadatas"))

\* the slice [:k] dropped
MergeNoSlice(results, kk, rev) ==
    LET sorted == Sort(Combined(results), 1, rev)
    IN  QR(Column(sorted, 1), Column(sorted, 2), Column(sorted, 3))

merge_and_sort_query_results(results, kk, rev) ==
    LET combined == Sort(Combined(results), 1, rev)
    IN  IF combined = <<>> THEN QR(<<>>, <<>>, <<>>)
        ELSE QR(Take(Column(combined, 1), kk),
                Take(Column(combined, 2), kk),
                Take(Column(combined, 3), kk))

----------------------------------------------------------------------------
(* Specification of merge_and_sort_query_results *)

InitFusion ==
    /\ RerankIdle
    /\ OrchIdle
    /\ TemplateIdle
    /\ RagIdle
    /\ query_results \in SeqUpTo(QueryResults, MaxResults)
    /\ k \in 0..MaxK
    /\ reverse \in BOOLEAN
    /\ fusion_pc = "call"
    /\ fusion_result = NoResult

MergeAndSort ==
    /\ fusion_pc = "call"
    /\ fusion_result' = merge_and_sort_query_results(query_results, k, reverse)
    /\ fusion_pc' = "done"
    /\ UNCHANGED <<k, query_results, reverse>>

NextFusion == MergeAndSort /\ UNCHANGED <<rerankVars, orchVars, templateVars, ragVars>>

SpecFusion == InitFusion /\ [][NextFusion]_vars

----------------------------------------------------------------------------
(* C6, C7: fusion order, stability, truncation *)

FusionDone == fusion_pc = "done"

OutTriples ==
    Zip3(fusion_result.distances[1], fusion_result.documents[1],
         fusion_result.metadatas[1])

IsPrefix(s, t) == Len(s) <= Len(t) /\ s = SubSeq(t, 1, Len(s))

WithDist(triples, d) == SelectSeq(triples, LAMBDA t : t[1] = d)

\* C6: with reverse=false the returned distances are non-decreasing, with
\* reverse=true non-increasing, and in both directions the returned items of
\* equal distance keep the order they had in the concatenated input.
C6_FusionOrderStable ==
    FusionDone =>
        LET ds == fusion_result.distances[1]
        IN  /\ \A i, j \in 1..Len(ds) :
                i < j => IF reverse THEN ds[i] >= ds[j] ELSE ds[i] <= ds[j]
            /\ \A d \in Dists :
                IsPrefix(WithDist(OutTriples, d),
                         WithDist(Combined(query_results), d))

\* three items, the first and the last of equal distance, all returned
C6_Witness ==
    /\ FusionDone
    /\ reverse
    /\ Len(fusion_result.distances[1]) >= 3
    /\ \E i, j \in 1..Len(Combined(query_results)) :
        /\ i < j
        /\ Combined(query_results)[i][1] = Combined(query_results)[j][1]
        /\ Combined(query_results)[i][2] # Combined(query_results)[j][2]

\* the j-th item's place in the sorted sequence: one more than the number of
\* items that sort strictly before it or tie with it from an earlier place
Rank(combined, j, rev) ==
    1 + Cardinality({m \in 1..Len(combined) :
                        \/ Before(combined[m][1], combined[j][1], rev)
                        \/ combined[m][1] = combined[j][1] /\ m < j})

RankSorted(combined, rev) ==
    [i \in 1..Len(combined) |->
        combined[CHOOSE j \in 1..Len(combined) : Rank(combined, j, rev) = i]]

\* C7: the result has one outer row; its three sequences have length
\* min(k, number of combined input items) and hold, item by item, the first k
\* items of the sorted sequence; empty input gives three empty rows.
C7_FusionTruncation ==
    FusionDone =>
        LET combined == Combined(query_results)
            n == Min(k, Len(combined))
            first == SubSeq(RankSorted(combined, reverse), 1, n)
        IN  /\ Len(fusion_result.distances) = 1
            /\ Len(fusion_result.documents) = 1
            /\ Len(fusion_result.metadatas) = 1
            /\ Len(fusion_result.distances[1]) = n
            /\ Len(fusion_result.documents[1]) = n
            /\ Len(fusion_result.metadatas[1]) = n
            /\ OutTriples = first
            /\ (query_results = <<>> => fusion_result = QR(<<>>, <<>>, <<>>))

\* more items than k, so the slice drops some
C7_Witness ==
    /\ FusionDone
    /\ k >= 1
    /\ Len(Combined(query_results)) > k
    /\ Len(fusion_result.documents[1]) = k

----------------------------------------------------------------------------
(* RerankCompressor.compress_documents and the repacking of its result in    *)
(* query_doc_with_hybrid_search                                              *)

\* the scores the scorer answers (reranking_function.predict or cos_sim)
ScoreVals == {-2, 1, 4, 9}
\* the thresholds r_score tried: disabled, between, equal to a score, negative
RScores == {0, 5, 4, -1}

\* the i-th candidate of the ensemble retriever: candidates differ in text and
\* each owns its metadata mapping
Candidate(i) ==
    LET text == "d" \o ToString(i)
    IN  [page_content |-> text, metadata |-> Meta(text)]

\* list(zip(documents, scores.tolist()))
Zip2(a, b) == [i \in 1..Min(Len(a), Len(b)) |-> <<a[i], b[i]>>]

\* Python truthiness of a float
Truthy(r) == r # 0

\* a threshold that drops the candidates whose score equals r_score
ThresholdFilterStrict(dws, r) ==
    IF Truthy(r) THEN SelectSeq(dws, LAMBDA ds : ds[2] > r) ELSE dws

\* if self.r_score: keep (d, s) with s >= self.r_score
ThresholdFilter(dws, r) ==
    IF Truthy(r) THEN SelectSeq(dws, LAMBDA ds : ds[2] >= r) ELSE dws

\* metadata["score"] = doc_score on a mapping
SetScore(metadata, s) ==
    [x \in DOMAIN metadata \cup {"score"} |->
        IF x = "score" THEN s ELSE metadata[x]]

\* the loop over result[: self.top_n]
Scored(result) ==
    [i \in 1..Len(result) |->
        [page_content |-> result[i][1].page_content,
         metadata |-> SetScore(result[i][1].metadata, result[i][2])]]

\* the survivors ranked ascending
RankAscending(dws, n) == Scored(Take(Sort(dws, 2, FALSE), n))

\* sorted(docs_with_scores, key=itemgetter(1), reverse=True)[: top_n], scored
RankAndTruncate(dws, n) == Scored(Take(Sort(dws, 2, TRUE), n))

\* lines 134-138 of query_doc_with_hybrid_search
HybridPack(result) ==
    QR([i \in 1..Len(result) |-> result[i].metadata.score],
       [i \in 1..Len(result) |-> result[i].page_content],
       [i \in 1..Len(result) |-> result[i].metadata])

InitRerank ==
    /\ FusionIdle
    /\ OrchIdle
    /\ TemplateIdle
    /\ RagIdle
    /\ k = 0
    /\ \E n \in 0..MaxDocs :
        /\ documents = [i \in 1..n |-> Candidate(i)]
        /\ scores \in [1..n -> ScoreVals]
    /\ r_score \in RScores
    /\ top_n \in 0..MaxK
    /\ docs_with_scores = <<>>
    /\ final_results = <<>>
    /\ hybrid_doc_result = NoResult
    /\ rerank_pc = "call"

CompressDocuments ==
    /\ rerank_pc = "call"
    /\ docs_with_scores' = ThresholdFilter(Zip2(documents, scores), r_score)
    /\ final_results' = RankAndTruncate(docs_with_scores', top_n)
    /\ rerank_pc' = "compressed"
    /\ UNCHANGED <<documents, scores, r_score, top_n, hybrid_doc_result>>

RepackHybridResult ==
    /\ rerank_pc = "compressed"
    /\ hybrid_doc_result' = HybridPack(final_results)
    /\ rerank_pc' = "done"
    /\ UNCHANGED <<documents, scores, r_score, top_n, docs_with_scores,
                   final_results>>

NextRerank ==
    \/ CompressDocuments /\ UNCHANGED <<k, fusionVars, orchVars, templateVars, ragVars>>
    \/ RepackHybridResult /\ UNCHANGED <<k, fusionVars, orchVars, templateVars, ragVars>>

SpecRerank == InitRerank /\ [][NextRerank]_vars

----------------------------------------------------------------------------
(* C8, C9: rerank threshold and truncation *)

Compressed == rerank_pc \in {"compressed", "done"}

InSeq(x, s) == \E i \in 1..Len(s) : s[i] = x

\* C8: the threshold filter drops a candidate exactly when r_score is truthy
\* and the candidate's score is strictly below r_score; scores 0.9, 0.4, 0.1
\* leave one survivor at r_score 0.5 and three at r_score 0.
C8_RerankThreshold ==
    Compressed =>
        /\ \A i \in 1..Len(documents) :
            ~InSeq(<<documents[i], scores[i]>>, docs_with_scores)
                <=> (Truthy(r_score) /\ scores[i] < r_score)
        /\ (scores = <<9, 4, 1>> /\ r_score = 5 => Len(docs_with_scores) = 1)
        /\ (scores = <<9, 4, 1>> /\ r_score = 0 => Len(docs_with_scores) = 3)

\* a score equal to the threshold is kept while a lower one is dropped
C8_Witness ==
    /\ Compressed
    /\ scores = <<9, 4, 1>>
    /\ r_score = 4
    /\ Len(docs_with_scores) = 2

\* the place in docs_with_scores of the candidate with this text
SurvivorIndex(text) ==
    CHOOSE j \in 1..Len(docs_with_scores) :
        docs_with_scores[j][1].page_content = text

\* C9: compress_documents returns min(top_n, survivors) candidates, the
\* highest-scoring survivors in descending score order with equal scores in
\* input order, each with metadata 'score' equal to the score it was ranked
\* by; query_doc_with_hybrid_search reports that score as the distance.
C9_RerankTruncation ==
    Compressed =>
        LET n == Min(top_n, Len(docs_with_scores))
            texts == {docs_with_scores[j][1].page_content :
                        j \in 1..Len(docs_with_scores)}
            P(i) == SurvivorIndex(final_results[i].page_content)
            chosen == {P(i) : i \in 1..Len(final_results)}
        IN  /\ Len(final_results) = n
            /\ \A i \in 1..Len(final_results) :
                /\ final_results[i].page_content \in texts
                /\ final_results[i].metadata.score = docs_with_scores[P(i)][2]
                /\ final_results[i].metadata.name
                      = docs_with_scores[P(i)][1].metadata.name
            /\ \A i, j \in 1..Len(final_results) :
                i < j =>
                    \/ final_results[i].metadata.score
                          > final_results[j].metadata.score
                    \/ /\ final_results[i].metadata.score
                            = final_results[j].metadata.score
                       /\ P(i) < P(j)
            /\ \A m \in (1..Len(docs_with_scores)) \ chosen :
                \A i \in 1..Len(final_results) :
                    \/ docs_with_scores[m][2] < final_results[i].metadata.score
                    \/ /\ docs_with_scores[m][2]
                            = final_results[i].metadata.score
                       /\ P(i) < m
            /\ (rerank_pc = "done" =>
                    /\ Len(hybrid_doc_result.distances[1]) = n
                    /\ \A i \in 1..n :
                        /\ hybrid_doc_result.distances[1][i]
                              = final_results[i].metadata.score
                        /\ hybrid_doc_result.documents[1][i]
                              = final_results[i].page_content)

\* more survivors than top_n, two of them tying on the score
C9_Witness ==
    /\ rerank_pc = "done"
    /\ top_n = 2
    /\ Len(docs_with_scores) = 4
    /\ Len(final_results) = 2
    /\ final_results[1].metadata.score = final_results[2].metadata.score
    /\ \E j \in 1..Len(docs_with_scores) : docs_with_scores[j][2] = 1

----------------------------------------------------------------------------
(* query_collection and query_collection_with_hybrid_search                  *)

\* collection names: the empty string is the falsy name
Names == {"", "a", "b"}

\* what one per-collection call does: raise, return None, return a result
Raise == [kind |-> "raise", value |-> NoResult]
ReturnNone == [kind |-> "none", value |-> NoResult]
Return(qr) == [kind |-> "result", value |-> qr]

\* the results a per-collection call returns
StoreResults == {ItemsQR(items) : items \in {<<>>, <<ItemA>>, <<ItemB, ItemC>>}}

\* query_doc: the store's answer or its exception, re-raised
QueryDocOutcomes == {Raise, ReturnNone} \cup {Return(qr) : qr \in StoreResults}

\* query_doc_with_hybrid_search: a repacked dict, or any exception re-raised
HybridDocOutcomes == {Raise} \cup {Return(qr) : qr \in StoreResults}

\* the for loop of query_collection from position i on; acc holds results and
\* the names query_doc was called with
RECURSIVE PlainLoop(_, _, _, _)
PlainLoop(names, outs, i, acc) ==
    IF i > Len(names) THEN acc
    ELSE IF names[i] # ""
         THEN LET called == Append(acc.calls, names[i])
              IN  IF outs[i].kind = "result"
                  THEN PlainLoop(names, outs, i + 1,
                           [results |-> Append(acc.results, outs[i].value),
                            calls |-> called])
                  ELSE PlainLoop(names, outs, i + 1,
                           [results |-> acc.results, calls |-> called])
         ELSE PlainLoop(names, outs, i + 1, acc)

\* the loop left at the first exception
RECURSIVE PlainLoopAbort(_, _, _, _)
PlainLoopAbort(names, outs, i, acc) ==
    IF i > Len(names) THEN acc
    ELSE IF names[i] # ""
         THEN LET called == Append(acc.calls, names[i])
              IN  IF outs[i].kind = "result"
                  THEN PlainLoopAbort(names, outs, i + 1,
                           [results |-> Append(acc.results, outs[i].value),
                            calls |-> called])
                  ELSE IF outs[i].kind = "raise"
                  THEN [results |-> acc.results, calls |-> called]
                  ELSE PlainLoopAbort(names, outs, i + 1,
                           [results |-> acc.results, calls |-> called])
         ELSE PlainLoopAbort(names, outs, i + 1, acc)

query_collection_abort(names, outs, kk) ==
    LET acc == PlainLoopAbort(names, outs, 1, [results |-> <<>>, calls |-> <<>>])
    IN  [raised |-> FALSE,
         value |-> merge_and_sort_query_results(acc.results, kk, FALSE),
         calls |-> acc.calls]

query_collection(names, outs, kk) ==
    LET acc == PlainLoop(names, outs, 1, [results |-> <<>>, calls |-> <<>>])
    IN  [raised |-> FALSE,
         value |-> merge_and_sort_query_results(acc.results, kk, FALSE),
         calls |-> acc.calls]

\* the for loop of query_collection_with_hybrid_search from position i on
RECURSIVE HybridLoop(_, _, _, _)
HybridLoop(names, outs, i, acc) ==
    IF i > Len(names) THEN acc
    ELSE LET called == Append(acc.calls, names[i])
         IN  IF outs[i].kind = "result"
             THEN HybridLoop(names, outs, i + 1,
                      [results |-> Append(acc.results, outs[i].value),
                       error |-> acc.error, calls |-> called])
             ELSE HybridLoop(names, outs, i + 1,
                      [results |-> acc.results, error |-> TRUE,
                       calls |-> called])

query_collection_with_hybrid_search(names, outs, kk) ==
    LET acc == HybridLoop(names, outs, 1,
                   [results |-> <<>>, error |-> FALSE, calls |-> <<>>])
    IN  IF acc.error
        THEN [raised |-> TRUE, value |-> NoResult, calls |-> acc.calls]
        ELSE [raised |-> FALSE,
              value |-> merge_and_sort_query_results(acc.results, kk, TRUE),
              calls |-> acc.calls]

\* a falsy name is never queried: the outcome at its position is not drawn
OutcomesFor(names, Outs, skipFalsy) ==
    {outs \in [1..Len(names) -> Outs] :
        \A i \in 1..Len(names) :
            (skipFalsy /\ names[i] = "") => outs[i] = Raise}

InitPlain ==
    /\ FusionIdle
    /\ RerankIdle
    /\ TemplateIdle
    /\ RagIdle
    /\ k \in 0..MaxK
    /\ collection_names \in SeqUpTo(Names, MaxNames)
    /\ outcomes \in OutcomesFor(collection_names, QueryDocOutcomes, TRUE)
    /\ orch_pc = "call"
    /\ orch_result = NoCall

QueryCollection ==
    /\ orch_pc = "call"
    /\ orch_result' = query_collection(collection_names, outcomes, k)
    /\ orch_pc' = "done"
    /\ UNCHANGED <<k, collection_names, outcomes>>

NextPlain ==
    QueryCollection /\ UNCHANGED <<fusionVars, rerankVars, templateVars, ragVars>>

SpecPlain == InitPlain /\ [][NextPlain]_vars

InitHybrid ==
    /\ FusionIdle
    /\ RerankIdle
    /\ TemplateIdle
    /\ RagIdle
    /\ k \in 0..MaxK
    /\ collection_names \in SeqUpTo(Names, MaxNames)
    /\ outcomes \in OutcomesFor(collection_names, HybridDocOutcomes, FALSE)
    /\ orch_pc = "call"
    /\ orch_result = NoCall

QueryCollectionWithHybridSearch ==
    /\ orch_pc = "call"
    /\ orch_result' =
          query_collection_with_hybrid_search(collection_names, outcomes, k)
    /\ orch_pc' = "done"
    /\ UNCHANGED <<k, collection_names, outcomes>>

NextHybrid ==
    QueryCollectionWithHybridSearch
        /\ UNCHANGED <<fusionVars, rerankVars, templateVars, ragVars>>

SpecHybrid == InitHybrid /\ [][NextHybrid]_vars

----------------------------------------------------------------------------
(* C5, C1: per-collection failure in the orchestrators *)

OrchDone == orch_pc = "done"

\* the positions, in order, whose per-collection call returned a result
SucceededAt(skipFalsy) ==
    SelectSeq([i \in 1..Len(collection_names) |-> i],
              LAMBDA i : /\ outcomes[i].kind = "result"
                         /\ ~(skipFalsy /\ collection_names[i] = ""))

SucceededResults(skipFalsy) ==
    LET at == SucceededAt(skipFalsy)
    IN  [j \in 1..Len(at) |-> outcomes[at[j]].value]

\* C5: query_collection never raises; it queries exactly the truthy names, in
\* order, whatever fails, and returns the ascending fusion, truncated to k,
\* of exactly the results of the collections that succeeded (three empty
\* rows when none did).
C5_PlainFailureIsolation ==
    OrchDone =>
        LET good == SucceededResults(TRUE)
            ds == orch_result.value.distances[1]
        IN  /\ ~orch_result.raised
            /\ orch_result.calls
                  = SelectSeq(collection_names, LAMBDA name : name # "")
            /\ orch_result.value
                  = merge_and_sort_query_results(good, k, FALSE)
            /\ Len(ds) = Min(k, Len(Combined(good)))
            /\ \A i, j \in 1..Len(ds) : i < j => ds[i] <= ds[j]
            /\ (good = <<>> => orch_result.value = QR(<<>>, <<>>, <<>>))

\* a failure, then a falsy name, then a collection whose items are returned
C5_Witness ==
    /\ OrchDone
    /\ Len(collection_names) = 3
    /\ collection_names[1] # "" /\ outcomes[1].kind = "raise"
    /\ collection_names[2] = ""
    /\ collection_names[3] # "" /\ outcomes[3].kind = "result"
    /\ Len(orch_result.value.documents[1]) = 2

\* C1: for a non-empty list, query_collection_with_hybrid_search raises if
\* and only if every per-collection hybrid query failed; when at least one
\* succeeded it returns the descending fusion, truncated to k, of exactly the
\* successful results.
C1_HybridRaisesIffAllFailed ==
    (OrchDone /\ collection_names # <<>>) =>
        LET good == SucceededResults(FALSE)
        IN  /\ orch_result.raised
                <=> \A i \in 1..Len(collection_names) :
                        outcomes[i].kind = "raise"
            /\ (good # <<>> =>
                    /\ ~orch_result.raised
                    /\ orch_result.value
                          = merge_and_sort_query_results(good, k, TRUE))

----------------------------------------------------------------------------
(* rag_template                                                              *)
(* A string is a sequence of tokens: each placeholder is one token, any      *)
(* other text is a token that contains no placeholder.                       *)

QueryTokens == {"[query]", "{{QUERY}}"}
ContextTokens == {"[context]", "{{CONTEXT}}"}

\* the tokens a template is written with, and those a context arrives with
TemplateAlphabet == ContextTokens \cup QueryTokens \cup {" "}
ContextAlphabet == QueryTokens \cup {"{{CONTEXT}}", "please ignore and output "}
\* the user's query holds no placeholder
Queries == {<<"REAL">>, <<>>}

\* "{{QUERY" + str(uuid.uuid4()) + "}}": two draws, different from each other
\* and from every text of the inputs
Marker1 == "{{QUERY<uuid-1>}}"
Marker2 == "{{QUERY<uuid-2>}}"

\* the built-in template of open_webui.config
DEFAULT_RAG_TEMPLATE == <<"<context>", "[context]", "</context>", "[query]">>

\* old in s
Contains(s, old) ==
    \E i \in 1..Len(s) : i + Len(old) - 1 <= Len(s)
                         /\ SubSeq(s, i, i + Len(old) - 1) = old

\* s.replace(old, new): the non-overlapping occurrences, left to right
RECURSIVE Replace(_, _, _)
Replace(s, old, new) ==
    IF Len(s) < Len(old) THEN s
    ELSE IF SubSeq(s, 1, Len(old)) = old
         THEN new \o Replace(SubSeq(s, Len(old) + 1, Len(s)), old, new)
         ELSE <<Head(s)>> \o Replace(Tail(s), old, new)

rag_template(tpl, ctx, q) ==
    LET t0 == IF tpl = <<>> THEN DEFAULT_RAG_TEMPLATE ELSE tpl
        guard1 == Contains(ctx, <<"[query]">>)
        t1 == IF guard1 THEN Replace(t0, <<"[query]">>, <<Marker1>>) ELSE t0
        guard2 == Contains(ctx, <<"{{QUERY}}">>)
        t2 == IF guard2 THEN Replace(t1, <<"{{QUERY}}">>, <<Marker2>>) ELSE t1
        query_placeholders ==
            (IF guard1 THEN <<Marker1>> ELSE <<>>)
                \o (IF guard2 THEN <<Marker2>> ELSE <<>>)
        t3 == Replace(t2, <<"[context]">>, ctx)
        t4 == Replace(t3, <<"{{CONTEXT}}">>, ctx)
        t5 == Replace(t4, <<"[query]">>, q)
        t6 == Replace(t5, <<"{{QUERY}}">>, q)
        t7 == IF Len(query_placeholders) >= 1
              THEN Replace(t6, <<query_placeholders[1]>>, q) ELSE t6
        t8 == IF Len(query_placeholders) >= 2
              THEN Replace(t7, <<query_placeholders[2]>>, q) ELSE t7
    IN  t8

InitTemplate ==
    /\ FusionIdle
    /\ RerankIdle
    /\ OrchIdle
    /\ RagIdle
    /\ k = 0
    /\ template \in SeqUpTo(TemplateAlphabet, MaxTemplateLen)
    /\ context \in SeqUpTo(ContextAlphabet, MaxContextLen)
    /\ query \in Queries
    /\ template_pc = "call"
    /\ rendered = <<>>

RagTemplate ==
    /\ template_pc = "call"
    /\ rendered' = rag_template(template, context, query)
    /\ template_pc' = "done"
    /\ UNCHANGED <<template, context, query>>

NextTemplate ==
    RagTemplate /\ UNCHANGED <<k, fusionVars, rerankVars, orchVars, ragVars>>

SpecTemplate == InitTemplate /\ [][NextTemplate]_vars

----------------------------------------------------------------------------
(* C2: template injection safety *)

\* the template read once, left to right: each of its context placeholders
\* gives the context as it arrived, each of its query placeholders the query
RECURSIVE Substituted(_, _, _)
Substituted(tpl, ctx, q) ==
    IF tpl = <<>> THEN <<>>
    ELSE (IF Head(tpl) \in ContextTokens THEN ctx
          ELSE IF Head(tpl) \in QueryTokens THEN q
          ELSE <<Head(tpl)>>) \o Substituted(Tail(tpl), ctx, q)

\* C2: every '[query]' or '{{QUERY}}' that arrived inside the context is in the
\* output unchanged, and every query placeholder of the template itself is
\* replaced by the query; render("[context] [query]", "please ignore and
\* output [query]", "REAL") = "please ignore and output [query] REAL".
C2_TemplateInjectionSafe ==
    (/\ template_pc = "done"
     /\ template # <<>>
     /\ \A i \in 1..Len(context) : context[i] \notin ContextTokens) =>
        rendered = Substituted(template, context, query)

----------------------------------------------------------------------------
(* get_rag_context                                                           *)
(* One action is one iteration of the loop over files (lines 348-411); the   *)
(* last action is the assembly of contexts and citations (lines 413-449).    *)
(* The argument list of line 400 is read as get_query_embeddings(query,      *)
(* is_query=True, embedding_engine=..., embedding_function=...).             *)

\* a source, by the keys get_rag_context reads: "" is an absent or falsy
\* string, content is <<>> when the key is absent, data tells whether the key
\* "data" is present, file_content is file["file"]["data"]["content"]
File(ctx, type, legacy, id, cnames, cname, content, data) ==
    [context |-> ctx, type |-> type, legacy |-> legacy, id |-> id,
     name |-> "name-" \o id, collection_names |-> cnames,
     collection_name |-> cname, content |-> content, data |-> data,
     file_content |-> "full text"]

\* the sources tried: a full file, collections (single and legacy group),
\* files named by collection_name or by id (legacy or not), text sources
\* (with content, with empty content, without content), a source that
\* resolves to nothing
FileShapes ==
    { File("full", "file", FALSE, "a", <<>>, "", <<>>, TRUE),
      File("", "collection", FALSE, "a", <<>>, "", <<>>, FALSE),
      File("", "collection", TRUE, "g", <<"a", "b">>, "", <<>>, FALSE),
      File("", "file", FALSE, "x", <<>>, "b", <<>>, TRUE),
      File("", "file", TRUE, "a", <<>>, "", <<>>, FALSE),
      File("", "file", FALSE, "a", <<>>, "", <<>>, FALSE),
      File("", "text", FALSE, "t", <<>>, "b", <<"some text">>, FALSE),
      File("", "text", TRUE, "a", <<>>, "", <<"">>, FALSE),
      File("", "text", FALSE, "t", <<>>, "c", <<>>, FALSE),
      File("", "file", FALSE, "", <<>>, "", <<>>, FALSE) }

\* lines 357-369: the list collection_names of a source
ResolveNames(file) ==
    IF file.type = "collection"
    THEN IF file.legacy THEN file.collection_names ELSE <<file.id>>
    ELSE IF file.collection_name # "" THEN <<file.collection_name>>
    ELSE IF file.id # ""
         THEN IF file.legacy THEN <<file.id>> ELSE <<"file-" \o file.id>>
         ELSE <<>>

ToSet(s) == {s[i] : i \in 1..Len(s)}

\* the names handed on without the subtraction
RemainingNamesNoDedup(file, extracted) == ToSet(ResolveNames(file))

\* line 371: set(collection_names).difference(extracted_collections)
RemainingNames(file, extracted) == ToSet(ResolveNames(file)) \ extracted

\* the orders in which a set is iterated
Orders(S) == {o \in [1..Cardinality(S) -> S] : ToSet(o) = S}

\* what the per-collection calls made for a source return
RagResults == {ItemsQR(<<>>), ItemsQR(<<ItemA>>)}
RagHybridOutcomes == {Raise} \cup {Return(qr) : qr \in RagResults}
RagPlainOutcomes == {Raise, ReturnNone} \cup {Return(qr) : qr \in RagResults}

\* lines 350-353: the context of a full source
FullContext(file) ==
    [documents |-> << <<file.file_content>> >>,
     metadatas |-> << <<[file_id |-> file.id, name |-> file.name]>> >>]

\* the fallback taken whatever the hybrid call did
RetrieveContextAlwaysPlain(names, hs, houts, embed_ok, pouts, kk) ==
    LET h == IF hs THEN query_collection_with_hybrid_search(names, houts, kk)
             ELSE NoCall
        hstat == IF ~hs THEN "no" ELSE IF h.raised THEN "raised" ELSE "returned"
        harg == IF hs THEN ToSet(names) ELSE {}
    IN  IF ~embed_ok
        THEN [hybrid |-> hstat, hybrid_arg |-> harg, plain |-> "embed raised",
              plain_arg |-> {}, found |-> FALSE, context |-> NoResult]
        ELSE [hybrid |-> hstat, hybrid_arg |-> harg, plain |-> "called",
              plain_arg |-> ToSet(names), found |-> TRUE,
              context |-> query_collection(names, pouts, kk).value]

\* lines 381-404 for a source that is not a text source: names is
\* collection_names in the order the callee iterates it, houts and pouts the
\* outcomes of the per-collection calls, embed_ok whether get_query_embeddings
\* returns; found tells whether context was assigned
RetrieveContext(names, hs, houts, embed_ok, pouts, kk) ==
    LET h == IF hs THEN query_collection_with_hybrid_search(names, houts, kk)
             ELSE NoCall
        hstat == IF ~hs THEN "no" ELSE IF h.raised THEN "raised" ELSE "returned"
        harg == IF hs THEN ToSet(names) ELSE {}
    IN  IF hs /\ ~h.raised
        THEN [hybrid |-> hstat, hybrid_arg |-> harg, plain |-> "no",
              plain_arg |-> {}, found |-> TRUE, context |-> h.value]
        ELSE IF ~embed_ok
        THEN [hybrid |-> hstat, hybrid_arg |-> harg, plain |-> "embed raised",
              plain_arg |-> {}, found |-> FALSE, context |-> NoResult]
        ELSE [hybrid |-> hstat, hybrid_arg |-> harg, plain |-> "called",
              plain_arg |-> ToSet(names), found |-> TRUE,
              context |-> query_collection(names, pouts, kk).value]

\* The outcomes of the calls an iteration makes. A call that is not made has
\* no outcome to draw: its place holds Raise (no per-collection call), or TRUE
\* (get_query_embeddings).
PlainPathTaken(names, hs, houts, kk) ==
    ~hs \/ query_collection_with_hybrid_search(names, houts, kk).raised

HybridOutcomesDrawn(names, hs) ==
    IF hs THEN [1..Len(names) -> RagHybridOutcomes]
    ELSE {[i \in 1..Len(names) |-> Raise]}

EmbedOutcomesDrawn(names, hs, houts, kk) ==
    IF PlainPathTaken(names, hs, houts, kk) THEN BOOLEAN ELSE {TRUE}

PlainOutcomesDrawn(names, hs, houts, embed_ok, kk) ==
    IF PlainPathTaken(names, hs, houts, kk) /\ embed_ok
    THEN [1..Len(names) -> RagPlainOutcomes]
    ELSE {[i \in 1..Len(names) |-> Raise]}

\* `if context:` on a dict: true unless the dict has no key
DictTruthy(ctx) == DOMAIN ctx # {}

\* `if "data" in file: del file["data"]`
DelData(file) == [file EXCEPT !.data = FALSE]

\* {**context, "file": file}
WithFile(ctx, file) == ("file" :> file) @@ ctx

\* lines 418-432: the context string, by the names it is prefixed with and
\* the texts it joins
ContextString(ctx) ==
    LET ms == ctx.metadatas[1]
    IN  [names |-> {ms[i].name : i \in {j \in 1..Len(ms) : "name" \in DOMAIN ms[j]}},
         texts |-> ctx.documents[1]]

\* lines 435-441
Citation(ctx) ==
    LET citation == [source |-> ctx.file, document |-> ctx.documents[1],
                     metadata |-> ctx.metadatas[1]]
    IN  IF "distances" \in DOMAIN ctx /\ ctx.distances # <<>>
        THEN ("distances" :> ctx.distances[1]) @@ citation
        ELSE citation

\* what an iteration that makes no retrieval call logs
LogEntry(idx, kind, names, appended, raised) ==
    [idx |-> idx, kind |-> kind, names |-> names, hybrid |-> "no",
     hybrid_arg |-> {}, plain |-> "no", plain_arg |-> {}, items |-> 0,
     appended |-> appended, raised |-> raised]

InitRag ==
    /\ FusionIdle
    /\ RerankIdle
    /\ OrchIdle
    /\ TemplateIdle
    /\ k \in {0, MaxK}
    /\ files \in SeqUpTo(FileShapes, MaxFiles)
    /\ hybrid_search \in BOOLEAN
    /\ file_idx = 1
    /\ extracted_collections = {}
    /\ relevant_contexts = <<>>
    /\ contexts = <<>>
    /\ citations = <<>>
    /\ rag_pc = "loop"
    /\ rag_log = <<>>

InLoop == rag_pc = "loop" /\ file_idx <= Len(files)

\* lines 349-353, 408-411: a source with context == "full"
FullSource ==
    /\ InLoop
    /\ files[file_idx].context = "full"
    /\ LET file == DelData(files[file_idx])
       IN  /\ files' = [files EXCEPT ![file_idx] = file]
           /\ relevant_contexts' =
                 Append(relevant_contexts,
                        WithFile(FullContext(files[file_idx]), file))
    /\ rag_log' = Append(rag_log, LogEntry(file_idx, "full", {}, TRUE, FALSE))
    /\ file_idx' = file_idx + 1
    /\ UNCHANGED <<hybrid_search, extracted_collections, contexts, citations,
                   rag_pc>>

\* lines 371-374: nothing left to consult
SkipSource ==
    /\ InLoop
    /\ files[file_idx].context # "full"
    /\ RemainingNames(files[file_idx], extracted_collections) = {}
    /\ rag_log' = Append(rag_log, LogEntry(file_idx, "skipped", {}, FALSE, FALSE))
    /\ file_idx' = file_idx + 1
    /\ UNCHANGED <<files, hybrid_search, extracted_collections,
                   relevant_contexts, contexts, citations, rag_pc>>

\* lines 376-379, 403-411: a text source. A missing content is a KeyError
\* caught at line 403; an empty content is falsy at line 408; any other
\* content is a str, which {**context, "file": file} cannot unpack
TextSource ==
    /\ InLoop
    /\ files[file_idx].context # "full"
    /\ files[file_idx].type = "text"
    /\ LET file == files[file_idx]
           names == RemainingNames(file, extracted_collections)
           truthy == file.content # <<>> /\ file.content[1] # ""
       IN  /\ names # {}
           /\ extracted_collections' = extracted_collections \cup names
           /\ files' = IF truthy THEN [files EXCEPT ![file_idx] = DelData(file)]
                       ELSE files
           /\ rag_pc' = IF truthy THEN "raised" ELSE rag_pc
           /\ file_idx' = IF truthy THEN file_idx ELSE file_idx + 1
           /\ rag_log' = Append(rag_log,
                             LogEntry(file_idx, "text", names, FALSE, truthy))
    /\ UNCHANGED <<hybrid_search, relevant_contexts, contexts, citations>>

\* lines 376-411: a source that needs retrieval
RetrieveSource ==
    /\ InLoop
    /\ files[file_idx].context # "full"
    /\ files[file_idx].type # "text"
    /\ LET names == RemainingNames(files[file_idx], extracted_collections)
       IN  /\ names # {}
           /\ \E order \in Orders(names) :
              \E houts \in HybridOutcomesDrawn(order, hybrid_search) :
              \E embed_ok \in EmbedOutcomesDrawn(order, hybrid_search, houts, k) :
              \E pouts \in PlainOutcomesDrawn(order, hybrid_search, houts,
                                              embed_ok, k) :
                LET r == RetrieveContext(order, hybrid_search, houts, embed_ok,
                                         pouts, k)
                    appended == r.found /\ DictTruthy(r.context)
                    file == IF appended THEN DelData(files[file_idx])
                            ELSE files[file_idx]
                IN  /\ files' = [files EXCEPT ![file_idx] = file]
                    /\ relevant_contexts' =
                          IF appended
                          THEN Append(relevant_contexts,
                                      WithFile(r.context, file))
                          ELSE relevant_contexts
                    /\ rag_log' =
                          Append(rag_log,
                              [idx |-> file_idx, kind |-> "retrieval",
                               names |-> names, hybrid |-> r.hybrid,
                               hybrid_arg |-> r.hybrid_arg, plain |-> r.plain,
                               plain_arg |-> r.plain_arg,
                               items |-> Len(r.context.documents[1]),
                               appended |-> appended, raised |-> FALSE])
           /\ extracted_collections' = extracted_collections \cup names
    /\ file_idx' = file_idx + 1
    /\ UNCHANGED <<hybrid_search, contexts, citations, rag_pc>>

\* lines 413-449
AssembleAndReturn ==
    /\ rag_pc = "loop"
    /\ file_idx > Len(files)
    /\ contexts' = [i \in 1..Len(relevant_contexts) |->
                        ContextString(relevant_contexts[i])]
    /\ citations' = [i \in 1..Len(relevant_contexts) |->
                        Citation(relevant_contexts[i])]
    /\ rag_pc' = "returned"
    /\ UNCHANGED <<files, hybrid_search, file_idx, extracted_collections,
                   relevant_contexts, rag_log>>

otherVars == <<k, fusionVars, rerankVars, orchVars, templateVars>>

NextRag ==
    \/ FullSource /\ UNCHANGED otherVars
    \/ SkipSource /\ UNCHANGED otherVars
    \/ TextSource /\ UNCHANGED otherVars
    \/ RetrieveSource /\ UNCHANGED otherVars
    \/ AssembleAndReturn /\ UNCHANGED otherVars

SpecRag == InitRag /\ [][NextRag]_vars

----------------------------------------------------------------------------
(* C3, C4, C10: fallback, dedup across sources, citations *)

\* the log entries of the sources that went to retrieval
RetrievalEntries == {i \in 1..Len(rag_log) : rag_log[i].kind = "retrieval"}

ConsultedBefore(i) ==
    UNION {ToSet(ResolveNames(files[j])) :
              j \in {n \in 1..(i - 1) : files[n].context # "full"}}

\* C4: within one call each collection name is handed to retrieval for at
\* most one source: a source hands on exactly the names it resolves to that no
\* earlier non-full source resolved to, and a source with none left is
\* skipped, with no retrieval call and no context record.
C4_DedupAcrossSources ==
    /\ \A i \in 1..Len(rag_log) :
        LET e == rag_log[i]
            file == files[e.idx]
            fresh == ToSet(ResolveNames(file)) \ ConsultedBefore(e.idx)
        IN  /\ e.idx = i
            /\ (file.context # "full" =>
                    /\ e.names = fresh
                    /\ e.hybrid_arg \subseteq fresh
                    /\ e.plain_arg \subseteq fresh
                    /\ (fresh = {} =>
                            /\ e.kind = "skipped"
                            /\ e.hybrid = "no" /\ e.plain = "no"
                            /\ ~e.appended)
                    /\ (fresh # {} => e.kind \in {"text", "retrieval"}))
    /\ \A i, j \in 1..Len(rag_log) :
        i < j =>
            (rag_log[i].hybrid_arg \cup rag_log[i].plain_arg)
                \cap (rag_log[j].hybrid_arg \cup rag_log[j].plain_arg) = {}
    /\ Len(relevant_contexts)
          = Cardinality({i \in 1..Len(rag_log) : rag_log[i].appended})

\* a legacy group {a, b} after a source that consulted a: only b is handed on
C4_WitnessPartial ==
    /\ rag_pc = "returned"
    /\ Len(rag_log) = 2
    /\ rag_log[1].kind = "retrieval" /\ rag_log[1].names = {"a"}
    /\ rag_log[2].kind = "retrieval" /\ rag_log[2].names = {"b"}
    /\ ToSet(ResolveNames(files[2])) = {"a", "b"}

\* C10: every returned citation has at least one document, and a source whose
\* retrieval produced zero items contributes no citation and no context
\* string.
C10_CitationsNonEmpty ==
    rag_pc = "returned" =>
        /\ \A i \in 1..Len(citations) : Len(citations[i].document) >= 1
        /\ \A i \in RetrievalEntries :
            rag_log[i].items = 0 => ~rag_log[i].appended
        /\ Len(citations)
              = Cardinality({i \in 1..Len(rag_log) :
                                /\ rag_log[i].kind \in {"full", "retrieval"}
                                /\ rag_log[i].appended
                                /\ (rag_log[i].kind = "retrieval"
                                        => rag_log[i].items >= 1)})
        /\ Len(contexts) = Len(citations)

----------------------------------------------------------------------------
(* C11: text sources *)

\* the log entries of the text sources whose content is not empty
TextEntries ==
    {i \in 1..Len(rag_log) :
        /\ rag_log[i].kind = "text"
        /\ files[rag_log[i].idx].content # <<>>
        /\ files[rag_log[i].idx].content[1] # ""}

\* C11: a text source with an unconsumed collection reference and non-empty
\* content gives its raw content as context with no retrieval call, the
\* remaining sources are processed, and get_rag_context returns its pair
\* instead of raising to its caller.
C11_TextSourceReturns ==
    /\ rag_pc # "raised"
    /\ \A i \in TextEntries :
        /\ rag_log[i].hybrid = "no"
        /\ rag_log[i].plain = "no"
        /\ ~rag_log[i].raised
        /\ rag_log[i].appended
        /\ file_idx > rag_log[i].idx

====
